---- MODULE Spec2Model ----
(***************************************************************************)
(* Diet-Plan: the AI recipe lookup of ai_service.py (query_ai and its     *)
(* cache in table ai_recipe_cache), the ai_models and meal plan            *)
(* administration of main.py, its dashboard and history pages and the     *)
(* preparation checks, the tables of database.py they work on, and the    *)
(* connections get_db opens to them.                                       *)
(*                                                                         *)
(* A Python str is a sequence of text pieces; the piece " " is a          *)
(* whitespace character. None is the empty tuple and a value v that may   *)
(* be None is carried as <<v>>.                                            *)
(***************************************************************************)
EXTENDS Integers, Sequences, FiniteSets, TLC

VARIABLES
    ai_models,        \* rows of table ai_models
    ai_models_seq,    \* AUTOINCREMENT counter of ai_models.id
    ai_recipe_cache,  \* rows of table ai_recipe_cache
    env,              \* os.environ of the server process
    req,              \* the query_ai invocations in flight, one record per request slot
    profiles,         \* ids of the rows of table profiles
    profiles_seq,     \* AUTOINCREMENT counter of profiles.id
    meal_plans,       \* rows of table meal_plans
    meal_plans_seq,   \* AUTOINCREMENT counter of meal_plans.id
    meal_checks,      \* rows of table meal_checks
    meal_checks_seq,  \* AUTOINCREMENT counter of meal_checks.id
    view,             \* what the last dashboard or history request answered
    toggles,          \* per (profile, meal): the toggle_meal requests that committed
    db,               \* the store connections: how many are open, and the operation
                      \* that is using one
    toggle_req,       \* the toggle_meal requests in flight, one record per request slot
    admin             \* the row of table admin: its password_hash

aiVars == <<ai_models, ai_models_seq, ai_recipe_cache, env, req>>
mealVars == <<profiles, profiles_seq, meal_plans, meal_plans_seq, meal_checks, meal_checks_seq>>
webVars == <<view, toggles, db, toggle_req, admin>>
vars == <<aiVars, mealVars, webVars>>

---------------------------------------------------------------------------
(* Bounds of the model *)

MaxModelId == 3
MaxMealId == 2
MaxProfileId == 1
MaxToggles == 3
MaxOpen == 3
MaxDay == 3
MaxWeeks == 2

(* Program constants *)

BodyExcerptLen == 200

---------------------------------------------------------------------------
(* Python values *)

None == <<>>
Some(v) == <<v>>
EmptyStr == <<>>

\* bool(x) of a str-or-None value
Truthy(opt) == opt # None /\ opt[1] # EmptyStr

\* x or ""   for a str-or-None value
OrEmpty(opt) == IF Truthy(opt) THEN opt[1] ELSE EmptyStr

IsSpace(c) == c = " "

LowerChar(c) ==
    CASE c = "D" -> "d"
      [] c = "A" -> "a"
      [] c = "L" -> "l"
      [] c = "R" -> "r"
      [] OTHER -> c

\* str.lower()
Lower(s) == [i \in 1..Len(s) |-> LowerChar(s[i])]

RECURSIVE LStrip(_)
LStrip(s) == IF s # <<>> /\ IsSpace(Head(s)) THEN LStrip(Tail(s)) ELSE s

RECURSIVE RStrip(_)
RStrip(s) ==
    IF s # <<>> /\ IsSpace(s[Len(s)]) THEN RStrip(SubSeq(s, 1, Len(s) - 1)) ELSE s

\* str.strip()
Strip(s) == RStrip(LStrip(s))

\* s[:n]
Prefix(s, n) == SubSeq(s, 1, IF Len(s) < n THEN Len(s) ELSE n)

---------------------------------------------------------------------------
(* Inputs *)

Procs == {1, 2}

Dal      == <<"D", "a", "l">>
DalNoisy == <<" ", "d", "A", "L", " ">>
DishNames == {Dal, DalNoisy}

GptOss  == <<"openai/gpt-oss-120b">>
Trinity == <<"arcee-ai/trinity-large-preview:free">>
ModelIdInputs == {<<" ">> \o GptOss}

StoredKey == <<"sk-stored">>
ApiKeyInputs == {EmptyStr, <<" ">>, <<" ">> \o StoredKey}

GroqEnvKey       == <<"gk-env">>
OpenRouterEnvKey == <<"ok-env">>

RecipeHtml == <<"<h3>Recipe</h3>">>
Contents == {EmptyStr, RecipeHtml}

LongBody == [i \in 1..(BodyExcerptLen + 1) |-> "x"]

---------------------------------------------------------------------------
(* database.py *)

Providers == {"groq", "openrouter"}

ModelRow(id, provider, model_id, api_key, is_default) ==
    [id |-> id, provider |-> provider, model_id |-> model_id,
     api_key |-> api_key, is_default |-> is_default]

NoRow == ModelRow(0, "", EmptyStr, EmptyStr, 0)

SeedModels ==
    { ModelRow(1, "groq", GptOss, EmptyStr, 1),
      ModelRow(2, "openrouter", Trinity, EmptyStr, 0) }

CacheRow(dish_name, model_id, recipe_html) ==
    [dish_name |-> dish_name, model_id |-> model_id, recipe_html |-> recipe_html]

---------------------------------------------------------------------------
(* ai_service.py: constants and the pure parts of query_ai *)

GROQ_API_URL == "https://api.groq.com/openai/v1/chat/completions"
OPENROUTER_API_URL == "https://openrouter.ai/api/v1/chat/completions"

NoModelFragment ==
    <<"<p class='error'>No AI model configured. Ask admin to add one.</p>">>
UnknownProviderFragment ==
    <<"<p class='error'>Unknown AI provider configured.</p>">>
MissingKeyFragment(provider) ==
    <<"<p class='error'>API key not configured for ", provider,
      ". Set the API key in admin settings or environment variable.</p>">>
TimeoutFragment ==
    <<"<p class='error'>AI service timed out. Please try again.</p>">>
StatusFragment(status_code, text) ==
    <<"<p class='error'>AI service error: ", status_code, " -- ">>
        \o Prefix(text, BodyExcerptLen) \o <<"</p>">>
GenericFragment(msg) ==
    <<"<p class='error'>Error querying AI: ", msg, "</p>">>

\* os.environ.get(name, "")
EnvGet(name) == IF env[name] = None THEN EmptyStr ELSE env[name][1]

\* the cache key of get_cached_recipe and cache_recipe: dish_name.lower().strip()
NormDish(dish_name) == Strip(Lower(dish_name))

\* get_default_model without the is_default query: any row
get_default_model_unflagged(rows) == IF rows # {} THEN rows ELSE {NoRow}

\* SELECT * FROM ai_models WHERE is_default = 1 LIMIT 1, else SELECT * ... LIMIT 1:
\* the rows the call may return (LIMIT 1 without ORDER BY leaves the row open)
get_default_model(rows) ==
    LET flagged == {m \in rows : m.is_default = 1}
    IN  IF flagged # {} THEN flagged
        ELSE IF rows # {} THEN rows
        ELSE {NoRow}

\* the values get_cached_recipe may return: None, or the recipe_html of a matching row
get_cached_recipe(cache, dish_name, model_id) ==
    LET rows == {r \in cache : r.dish_name = NormDish(dish_name) /\ r.model_id = model_id}
    IN  IF rows = {} THEN {None} ELSE {Some(r.recipe_html) : r \in rows}

\* "if cached:" of query_ai
CacheHit(cached) == Truthy(cached)

\* a plain INSERT on a table without the UNIQUE constraint
InsertOnly(cache, row) == cache \cup {row}

\* INSERT OR REPLACE under UNIQUE(dish_name, model_id): the rows in conflict are
\* deleted and the new row is inserted
InsertOrReplace(cache, row) ==
    {r \in cache : ~(r.dish_name = row.dish_name /\ r.model_id = row.model_id)}
        \cup {row}

\* cache_recipe with INSERT OR IGNORE: a row in conflict keeps the table as it is,
\* the entry of the first writer stays
cache_recipe_first_wins(cache, dish_name, model_id, recipe_html) ==
    IF \E r \in cache : r.dish_name = NormDish(dish_name) /\ r.model_id = model_id
    THEN cache
    ELSE cache \cup {CacheRow(NormDish(dish_name), model_id, recipe_html)}

\* cache_recipe storing dish_name as given
cache_recipe_raw(cache, dish_name, model_id, recipe_html) ==
    InsertOrReplace(cache, CacheRow(dish_name, model_id, recipe_html))

\* the table after cache_recipe commits
cache_recipe(cache, dish_name, model_id, recipe_html) ==
    InsertOrReplace(cache, CacheRow(NormDish(dish_name), model_id, recipe_html))

\* ResolveProvider with the environment key taking precedence over the stored key
ResolveProviderEnvFirst(model) ==
    LET stored == OrEmpty(Some(model.api_key))
    IN  CASE model.provider = "groq" ->
               Some(<<GROQ_API_URL,
                      IF EnvGet("GROQ_API_KEY") # EmptyStr
                      THEN EnvGet("GROQ_API_KEY") ELSE stored>>)
          [] model.provider = "openrouter" ->
               Some(<<OPENROUTER_API_URL,
                      IF EnvGet("OPENROUTER_API_KEY") # EmptyStr
                      THEN EnvGet("OPENROUTER_API_KEY") ELSE stored>>)
          [] OTHER -> None

\* ResolveProvider falling back to whichever environment key is set
ResolveProviderAnyEnv(model) ==
    LET stored == OrEmpty(Some(model.api_key))
        fallback == IF EnvGet("GROQ_API_KEY") # EmptyStr THEN EnvGet("GROQ_API_KEY")
                    ELSE EnvGet("OPENROUTER_API_KEY")
    IN  CASE model.provider = "groq" ->
               Some(<<GROQ_API_URL, IF stored # EmptyStr THEN stored ELSE fallback>>)
          [] model.provider = "openrouter" ->
               Some(<<OPENROUTER_API_URL, IF stored # EmptyStr THEN stored ELSE fallback>>)
          [] OTHER -> None

\* provider -> <<api_url, api_key>>, or None for an unknown provider
ResolveProvider(model) ==
    LET stored == OrEmpty(Some(model.api_key))
    IN  CASE model.provider = "groq" ->
               Some(<<GROQ_API_URL,
                      IF stored # EmptyStr THEN stored ELSE EnvGet("GROQ_API_KEY")>>)
          [] model.provider = "openrouter" ->
               Some(<<OPENROUTER_API_URL,
                      IF stored # EmptyStr THEN stored ELSE EnvGet("OPENROUTER_API_KEY")>>)
          [] OTHER -> None

(* Exceptions: the class raised, with what the handlers read of it *)
Exc(type, status_code, text, msg) ==
    [type |-> type, status_code |-> status_code, text |-> text, msg |-> msg]

\* the classes an exception class is an instance of
Bases(type) ==
    CASE type = "ReadTimeout"     -> {"ReadTimeout", "TimeoutException", "Exception"}
      [] type = "ConnectError"    -> {"ConnectError", "Exception"}
      [] type = "HTTPStatusError" -> {"HTTPStatusError", "Exception"}
      [] type = "KeyError"        -> {"KeyError", "Exception"}
      [] type = "IntegrityError"  -> {"IntegrityError", "Exception"}
      [] OTHER -> {type}

\* the except clauses with "except Exception" written first
HandlersCatchAllFirst(exc) ==
    IF "Exception" \in Bases(exc.type) THEN Some(GenericFragment(exc.msg))
    ELSE IF "TimeoutException" \in Bases(exc.type) THEN Some(TimeoutFragment)
    ELSE IF "HTTPStatusError" \in Bases(exc.type)
         THEN Some(StatusFragment(exc.status_code, exc.text))
    ELSE None

\* the except clauses without the final "except Exception"
HandlersNoCatchAll(exc) ==
    IF "TimeoutException" \in Bases(exc.type) THEN Some(TimeoutFragment)
    ELSE IF "HTTPStatusError" \in Bases(exc.type)
         THEN Some(StatusFragment(exc.status_code, exc.text))
    ELSE None

\* the except clauses with a timeout answered by an empty string
HandlersBlankTimeout(exc) ==
    IF "TimeoutException" \in Bases(exc.type) THEN Some(EmptyStr)
    ELSE IF "HTTPStatusError" \in Bases(exc.type)
         THEN Some(StatusFragment(exc.status_code, exc.text))
    ELSE IF "Exception" \in Bases(exc.type) THEN Some(GenericFragment(exc.msg))
    ELSE None

\* the except clauses of query_ai, in order: the fragment returned, or None when
\* no clause catches the exception and it leaves query_ai
Handlers(exc) ==
    IF "TimeoutException" \in Bases(exc.type) THEN Some(TimeoutFragment)
    ELSE IF "HTTPStatusError" \in Bases(exc.type)
         THEN Some(StatusFragment(exc.status_code, exc.text))
    ELSE IF "Exception" \in Bases(exc.type) THEN Some(GenericFragment(exc.msg))
    ELSE None

(* What the upstream may answer to the POST *)
Response(status_code, text, has_content, content) ==
    [status_code |-> status_code, text |-> text,
     has_content |-> has_content, content |-> content]

NoResponse == Response("", EmptyStr, FALSE, None)

Upstream ==
    \* the transport raises
    { [raises |-> t, resp |-> NoResponse] : t \in {"ReadTimeout", "ConnectError"} }
    \* a non-2xx status
    \cup { [raises |-> "", resp |-> Response("500", b, FALSE, None)] :
              b \in {EmptyStr, LongBody} }
    \* 200 with a body that has no choices[0].message.content
    \cup { [raises |-> "", resp |-> Response("200", EmptyStr, FALSE, None)] }
    \* 200 with content null
    \cup { [raises |-> "", resp |-> Response("200", EmptyStr, TRUE, None)] }
    \* 200 with a content string
    \cup { [raises |-> "", resp |-> Response("200", EmptyStr, TRUE, Some(c))] :
              c \in Contents }

\* lines 143-146: the exception raised before the cache write, or None
PostRaises(up) ==
    IF up.raises # "" THEN Some(Exc(up.raises, "", EmptyStr, up.raises))
    ELSE IF up.resp.status_code # "200"
         THEN Some(Exc("HTTPStatusError", up.resp.status_code, up.resp.text,
                       "HTTPStatusError"))
    ELSE IF ~up.resp.has_content THEN Some(Exc("KeyError", "", EmptyStr, "'choices'"))
    ELSE None

---------------------------------------------------------------------------
(* ai_service.py: query_ai, one action per await *)

IdleReq ==
    [pc |-> "idle", dish_name |-> EmptyStr, model |-> NoRow, api_url |-> "",
     api_key |-> EmptyStr, cached |-> None, content |-> None, result |-> None,
     raised |-> "", exc |-> None, posts |-> 0, cache_reads |-> 0, cache_writes |-> 0]

\* "return fragment"
Returned(r, fragment) == [r EXCEPT !.pc = "done", !.result = Some(fragment)]

\* an exception raised inside the try block of query_ai
Caught(r, exc) ==
    IF Handlers(exc) = None
    THEN [r EXCEPT !.pc = "done", !.exc = Some(exc), !.raised = exc.type]
    ELSE [r EXCEPT !.pc = "done", !.exc = Some(exc), !.result = Handlers(exc)]

\* a caller invokes query_ai(dish_name)
Call(p, dish_name) ==
    /\ req[p].pc = "idle"
    /\ req' = [req EXCEPT ![p] =
                  [IdleReq EXCEPT !.pc = "get_default_model", !.dish_name = dish_name]]
    /\ UNCHANGED <<ai_models, ai_models_seq, ai_recipe_cache, env, mealVars, webVars>>

\* lines 96-98
QueryGetDefaultModel(p) ==
    /\ req[p].pc = "get_default_model"
    /\ \E m \in get_default_model(ai_models) :
          req' = [req EXCEPT ![p] =
                     IF m = NoRow
                     THEN Returned(req[p], NoModelFragment)
                     ELSE [req[p] EXCEPT !.pc = "get_cached_recipe", !.model = m]]
    /\ UNCHANGED <<ai_models, ai_models_seq, ai_recipe_cache, env, mealVars, webVars>>

\* lines 105-120 without the "if not api_key" return
AfterMissNoKeyCheck(r) ==
    LET res == ResolveProvider(r.model)
    IN  IF res = None THEN Returned(r, UnknownProviderFragment)
        ELSE [r EXCEPT !.pc = "post", !.api_url = res[1][1], !.api_key = res[1][2]]

\* lines 105-120, after a cache miss
AfterMiss(r) ==
    LET res == ResolveProvider(r.model)
    IN  IF res = None THEN Returned(r, UnknownProviderFragment)
        ELSE IF res[1][2] = EmptyStr THEN Returned(r, MissingKeyFragment(r.model.provider))
        ELSE [r EXCEPT !.pc = "post", !.api_url = res[1][1], !.api_key = res[1][2]]

\* lines 101-120
QueryGetCachedRecipe(p) ==
    /\ req[p].pc = "get_cached_recipe"
    /\ \E c \in get_cached_recipe(ai_recipe_cache, req[p].dish_name, req[p].model.model_id) :
          LET r == [req[p] EXCEPT !.cached = c, !.cache_reads = @ + 1]
          IN  req' = [req EXCEPT ![p] =
                         IF CacheHit(c) THEN Returned(r, c[1]) ELSE AfterMiss(r)]
    /\ UNCHANGED <<ai_models, ai_models_seq, ai_recipe_cache, env, mealVars, webVars>>

\* lines 141-146 and the except clauses
QueryPost(p, up) ==
    /\ req[p].pc = "post"
    /\ LET r == [req[p] EXCEPT !.posts = @ + 1]
       IN  req' = [req EXCEPT ![p] =
                      IF PostRaises(up) # None
                      THEN Caught(r, PostRaises(up)[1])
                      ELSE [r EXCEPT !.pc = "cache_recipe",
                                     !.content = up.resp.content]]
    /\ UNCHANGED <<ai_models, ai_models_seq, ai_recipe_cache, env, mealVars, webVars>>

\* lines 149-150 and the except clauses; recipe_html is NOT NULL
QueryCacheRecipe(p) ==
    /\ req[p].pc = "cache_recipe"
    /\ IF req[p].content = None
       THEN /\ req' = [req EXCEPT ![p] =
                          Caught(req[p], Exc("IntegrityError", "", EmptyStr,
                                             "NOT NULL constraint failed"))]
            /\ UNCHANGED ai_recipe_cache
       ELSE /\ ai_recipe_cache' =
                   cache_recipe(ai_recipe_cache, req[p].dish_name,
                                req[p].model.model_id, req[p].content[1])
            /\ req' = [req EXCEPT ![p] =
                          Returned([req[p] EXCEPT !.cache_writes = @ + 1],
                                   req[p].content[1])]
    /\ UNCHANGED <<ai_models, ai_models_seq, env, mealVars, webVars>>

\* the caller has the result; the slot is free again
QueryReturn(p) ==
    /\ req[p].pc = "done"
    /\ req' = [req EXCEPT ![p] = IdleReq]
    /\ UNCHANGED <<ai_models, ai_models_seq, ai_recipe_cache, env, mealVars, webVars>>

Quiescent == \A p \in Procs : req[p].pc = "idle"

query_ai(p) ==
    \/ \E d \in DishNames : Call(p, d)
    \/ QueryGetDefaultModel(p)
    \/ QueryGetCachedRecipe(p)
    \/ \E up \in Upstream : QueryPost(p, up)
    \/ QueryCacheRecipe(p)
    \/ QueryReturn(p)

---------------------------------------------------------------------------
(* main.py: administration of ai_models *)

\* request.cookies.get("admin_session")
AdminCookies == {None, Some(<<"1">>)}

\* a session check that lets every request pass
get_admin_session_open(cookie) == TRUE

get_admin_session(cookie) == Truthy(cookie)

\* the opening of every admin handler:
\*     if not get_admin_session(request):
\*         return HTMLResponse("Unauthorized", status_code=401)
\* the status returned there, or None when the handler goes on
AdminRefusal(cookie) == IF get_admin_session(cookie) THEN None ELSE Some(401)

\* lines 994-1010; provider is CHECKed by the table
add_model(cookie, provider, model_id, api_key) ==
    /\ ai_models_seq < MaxModelId
    /\ IF get_admin_session(cookie) /\ provider \in Providers
       THEN /\ ai_models' = ai_models \cup
                   {ModelRow(ai_models_seq + 1, provider, Strip(model_id),
                             Strip(api_key), 0)}
            /\ ai_models_seq' = ai_models_seq + 1
       ELSE UNCHANGED <<ai_models, ai_models_seq>>
    /\ UNCHANGED <<ai_recipe_cache, env, req, mealVars, webVars>>

\* delete_model that also drops the cached recipes of the deleted model
delete_model_purging(cookie, model_id_int) ==
    /\ ai_models' = IF get_admin_session(cookie)
                    THEN {m \in ai_models : m.id # model_id_int}
                    ELSE ai_models
    /\ ai_recipe_cache' =
           IF get_admin_session(cookie)
           THEN {r \in ai_recipe_cache :
                   \A m \in ai_models : m.id = model_id_int => r.model_id # m.model_id}
           ELSE ai_recipe_cache
    /\ UNCHANGED <<ai_models_seq, env, req, mealVars, webVars>>

\* lines 1013-1025
delete_model(cookie, model_id_int) ==
    /\ ai_models' = IF get_admin_session(cookie)
                    THEN {m \in ai_models : m.id # model_id_int}
                    ELSE ai_models
    /\ UNCHANGED <<ai_models_seq, ai_recipe_cache, env, req, mealVars, webVars>>

\* set_default_model without the UPDATE that clears the flag of every row
set_default_model_adding(cookie, model_id_int) ==
    /\ ai_models' = IF get_admin_session(cookie)
                    THEN {IF m.id = model_id_int THEN [m EXCEPT !.is_default = 1] ELSE m :
                            m \in ai_models}
                    ELSE ai_models
    /\ UNCHANGED <<ai_models_seq, ai_recipe_cache, env, req, mealVars, webVars>>

\* lines 1028-1041
set_default_model(cookie, model_id_int) ==
    /\ ai_models' = IF get_admin_session(cookie)
                    THEN {[m EXCEPT !.is_default = IF m.id = model_id_int THEN 1 ELSE 0] :
                            m \in ai_models}
                    ELSE ai_models
    /\ UNCHANGED <<ai_models_seq, ai_recipe_cache, env, req, mealVars, webVars>>

\* the administrator's requests on ai_models, each served while no other request
\* is in progress
Admin ==
    \E cookie \in AdminCookies :
        \/ \E pr \in Providers \cup {"other"}, mi \in ModelIdInputs, k \in ApiKeyInputs :
              Quiescent /\ add_model(cookie, pr, mi, k)
        \/ \E i \in 1..MaxModelId : Quiescent /\ delete_model(cookie, i)
        \/ \E i \in 1..MaxModelId : Quiescent /\ set_default_model(cookie, i)

---------------------------------------------------------------------------
(* main.py: profiles, meal plans and preparation checks.  A plan_date is the  *)
(* ordinal of its day; NULL is 0, which no AUTOINCREMENT id takes.  Columns   *)
(* no handler reads back (description, the macro nutrients, timestamps) and   *)
(* table activity_logs are left out.                                          *)

NULL == 0

MEAL_TYPE_ORDER ==
    <<"breakfast", "morning_snack", "lunch", "afternoon_snack", "dinner", "evening_snack">>

MealTypes == {MEAL_TYPE_ORDER[i] : i \in 1..Len(MEAL_TYPE_ORDER)}

MealRow(id, plan_date, meal_type, dish_name, calories, profile_id) ==
    [id |-> id, plan_date |-> plan_date, meal_type |-> meal_type,
     dish_name |-> dish_name, calories |-> calories, profile_id |-> profile_id]

CheckRow(id, profile_id, meal_plan_id, is_prepared) ==
    [id |-> id, profile_id |-> profile_id, meal_plan_id |-> meal_plan_id,
     is_prepared |-> is_prepared]

\* CHECK(meal_type IN ...) and FOREIGN KEY (profile_id) REFERENCES profiles(id)
MealRowAccepted(row) ==
    /\ row.meal_type \in MealTypes
    /\ row.profile_id = NULL \/ row.profile_id \in profiles

\* lines 127-153
create_profile ==
    /\ profiles_seq < MaxProfileId
    /\ profiles' = profiles \cup {profiles_seq + 1}
    /\ profiles_seq' = profiles_seq + 1
    /\ UNCHANGED <<aiVars, webVars, meal_plans, meal_plans_seq, meal_checks, meal_checks_seq>>

\* lines 778-797
add_meal_manual(cookie, plan_date, meal_type, dish_name, calories, profile_id) ==
    LET pid == IF profile_id > 0 THEN profile_id ELSE NULL
        row == MealRow(meal_plans_seq + 1, plan_date, meal_type, Strip(dish_name),
                       calories, pid)
    IN  /\ meal_plans_seq < MaxMealId
        /\ IF get_admin_session(cookie) /\ MealRowAccepted(row)
           THEN /\ meal_plans' = meal_plans \cup {row}
                /\ meal_plans_seq' = meal_plans_seq + 1
           ELSE UNCHANGED <<meal_plans, meal_plans_seq>>
        /\ UNCHANGED <<aiVars, webVars, profiles, profiles_seq, meal_checks, meal_checks_seq>>

\* lines 870-889
edit_meal(cookie, meal_id, plan_date, meal_type, dish_name, calories, profile_id) ==
    LET pid == IF profile_id > 0 THEN profile_id ELSE NULL
        edited(m) == MealRow(m.id, plan_date, meal_type, Strip(dish_name), calories, pid)
    IN  /\ meal_plans' =
               IF /\ get_admin_session(cookie)
                  /\ \A m \in meal_plans : m.id = meal_id => MealRowAccepted(edited(m))
               THEN {IF m.id = meal_id THEN edited(m) ELSE m : m \in meal_plans}
               ELSE meal_plans
        /\ UNCHANGED <<aiVars, webVars, profiles, profiles_seq, meal_plans_seq, meal_checks,
                       meal_checks_seq>>

\* lines 964-984
copy_meal(cookie, meal_id, target_date) ==
    /\ meal_plans_seq < MaxMealId
    /\ IF get_admin_session(cookie) /\ \E m \in meal_plans : m.id = meal_id
       THEN /\ meal_plans' = meal_plans \cup
                   {[m EXCEPT !.id = meal_plans_seq + 1, !.plan_date = target_date] :
                       m \in {x \in meal_plans : x.id = meal_id}}
            /\ meal_plans_seq' = meal_plans_seq + 1
       ELSE UNCHANGED <<meal_plans, meal_plans_seq>>
    /\ UNCHANGED <<aiVars, webVars, profiles, profiles_seq, meal_checks, meal_checks_seq>>

\* delete_meal that leaves the preparation checks of the meal
delete_meal_keeping_checks(cookie, meal_id) ==
    /\ meal_plans' = IF get_admin_session(cookie)
                     THEN {m \in meal_plans : m.id # meal_id}
                     ELSE meal_plans
    /\ UNCHANGED <<aiVars, webVars, profiles, profiles_seq, meal_plans_seq, meal_checks,
                   meal_checks_seq>>

\* lines 732-745
delete_meal(cookie, meal_id) ==
    /\ IF get_admin_session(cookie)
       THEN /\ meal_checks' = {c \in meal_checks : c.meal_plan_id # meal_id}
            /\ meal_plans' = {m \in meal_plans : m.id # meal_id}
       ELSE UNCHANGED <<meal_plans, meal_checks>>
    /\ UNCHANGED <<aiVars, webVars, profiles, profiles_seq, meal_plans_seq, meal_checks_seq>>

\* lines 748-767
clear_week(cookie, week_start, week_end) ==
    LET gone == {m \in meal_plans : week_start <= m.plan_date /\ m.plan_date <= week_end}
    IN  /\ IF get_admin_session(cookie)
           THEN /\ meal_checks' =
                       {c \in meal_checks : c.meal_plan_id \notin {m.id : m \in gone}}
                /\ meal_plans' = meal_plans \ gone
           ELSE UNCHANGED <<meal_plans, meal_checks>>
        /\ UNCHANGED <<aiVars, webVars, profiles, profiles_seq, meal_plans_seq, meal_checks_seq>>

\* lines 624-660: the rows of the file that pass the checks are inserted in order,
\* shared by all profiles; a row is read after its str().strip() conversions
RECURSIVE Uploaded(_, _, _)
Uploaded(rows, table, seq) ==
    IF rows = <<>> THEN <<table, seq>>
    ELSE LET r == Head(rows)
             ok == /\ r.plan_date # NULL
                   /\ r.meal_type \in MealTypes
                   /\ Strip(r.dish_name) # EmptyStr
         IN  IF ok
             THEN Uploaded(Tail(rows),
                           table \cup {MealRow(seq + 1, r.plan_date, r.meal_type,
                                               Strip(r.dish_name), r.calories, NULL)},
                           seq + 1)
             ELSE Uploaded(Tail(rows), table, seq)

\* lines 578-662
upload_meals(cookie, rows) ==
    /\ meal_plans_seq + Len(rows) <= MaxMealId
    /\ IF get_admin_session(cookie)
       THEN /\ meal_plans' = Uploaded(rows, meal_plans, meal_plans_seq)[1]
            /\ meal_plans_seq' = Uploaded(rows, meal_plans, meal_plans_seq)[2]
       ELSE UNCHANGED <<meal_plans, meal_plans_seq>>
    /\ UNCHANGED <<aiVars, webVars, profiles, profiles_seq, meal_checks, meal_checks_seq>>

\* passlib bcrypt: hash(password) is a salted digest from which the password cannot
\* be read; verify(password, hash) tells whether the hash was made from the password
bcrypt_hash(password) == [digest_of |-> password]
bcrypt_verify(password, password_hash) == password_hash = bcrypt_hash(password)

\* database.py lines 135-145: the admin row seeded by init_db
SeedAdmin == [id |-> 1, username |-> "admin", password_hash |-> bcrypt_hash("admin123")]

\* lines 1085-1103
change_admin_password(cookie, current_password, new_password) ==
    /\ admin' = IF /\ get_admin_session(cookie)
                   /\ bcrypt_verify(current_password, admin.password_hash)
                THEN [admin EXCEPT !.password_hash = bcrypt_hash(new_password)]
                ELSE admin
    /\ UNCHANGED <<aiVars, mealVars, view, toggles, db, toggle_req>>

\* a flag that stays set
FlippedOnce(is_prepared) == 1

\* line 320: new_val = 0 if existing["is_prepared"] else 1
Flipped(is_prepared) == IF is_prepared # 0 THEN 0 ELSE 1

\* how many toggle_meal requests of the pair have committed
ToggleCount(profile_id, meal_plan_id) ==
    Cardinality({t \in toggles : t.profile_id = profile_id
                                  /\ t.meal_plan_id = meal_plan_id})

\* toggle_meal that looks the row up by the meal alone
toggle_meal_any_profile(profile_cookie, meal_plan_id) ==
    LET pid == profile_cookie[1]
        existing == {c \in meal_checks : c.meal_plan_id = meal_plan_id}
        committed == toggles \cup
                        {[profile_id |-> pid, meal_plan_id |-> meal_plan_id,
                          n |-> ToggleCount(pid, meal_plan_id) + 1]}
    IN  /\ profile_cookie # None => ToggleCount(pid, meal_plan_id) < MaxToggles
        /\ IF profile_cookie = None
           THEN UNCHANGED <<meal_checks, meal_checks_seq, toggles>>
           ELSE IF existing # {}
           THEN /\ meal_checks' =
                       {IF c \in existing
                        THEN [c EXCEPT !.is_prepared = Flipped(c.is_prepared)]
                        ELSE c : c \in meal_checks}
                /\ toggles' = committed
                /\ UNCHANGED meal_checks_seq
           ELSE IF /\ pid \in profiles
                   /\ \E m \in meal_plans : m.id = meal_plan_id
           THEN /\ meal_checks' = meal_checks \cup
                       {CheckRow(meal_checks_seq + 1, pid, meal_plan_id, 1)}
                /\ meal_checks_seq' = meal_checks_seq + 1
                /\ toggles' = committed
           ELSE UNCHANGED <<meal_checks, meal_checks_seq, toggles>>
        /\ UNCHANGED <<aiVars, view, db, toggle_req, admin, profiles, profiles_seq,
                       meal_plans, meal_plans_seq>>

\* lines 305-345; profile_cookie is request.cookies.get("profile_id") as a number,
\* or None; both columns of a new row are foreign keys, and a refused INSERT ends
\* the request before its commit
toggle_meal(profile_cookie, meal_plan_id) ==
    LET pid == profile_cookie[1]
        existing == {c \in meal_checks : c.profile_id = pid
                                          /\ c.meal_plan_id = meal_plan_id}
        committed == toggles \cup
                        {[profile_id |-> pid, meal_plan_id |-> meal_plan_id,
                          n |-> ToggleCount(pid, meal_plan_id) + 1]}
    IN  /\ profile_cookie # None => ToggleCount(pid, meal_plan_id) < MaxToggles
        /\ IF profile_cookie = None
           THEN UNCHANGED <<meal_checks, meal_checks_seq, toggles>>
           ELSE IF existing # {}
           THEN /\ meal_checks' =
                       {IF c \in existing
                        THEN [c EXCEPT !.is_prepared = Flipped(c.is_prepared)]
                        ELSE c : c \in meal_checks}
                /\ toggles' = committed
                /\ UNCHANGED meal_checks_seq
           ELSE IF /\ pid \in profiles
                   /\ \E m \in meal_plans : m.id = meal_plan_id
           THEN /\ meal_checks' = meal_checks \cup
                       {CheckRow(meal_checks_seq + 1, pid, meal_plan_id, 1)}
                /\ meal_checks_seq' = meal_checks_seq + 1
                /\ toggles' = committed
           ELSE UNCHANGED <<meal_checks, meal_checks_seq, toggles>>
        /\ UNCHANGED <<aiVars, view, db, toggle_req, admin, profiles, profiles_seq,
                       meal_plans, meal_plans_seq>>

(* toggle_meal, one action per await that another request can come in between: the *)
(* SELECT, then the UPDATE or INSERT with its commit (the writer holds the write     *)
(* lock of the database from its statement to its commit)                            *)

IdleToggle ==
    [pc |-> "idle", profile_id |-> NULL, meal_plan_id |-> NULL, existing |-> None,
     status |-> 0]

ToggleUnchanged ==
    UNCHANGED <<aiVars, view, db, admin, profiles, profiles_seq, meal_plans, meal_plans_seq>>

\* lines 305-309: the request arrives
ToggleCall(p, profile_cookie, meal_plan_id) ==
    /\ toggle_req[p].pc = "idle"
    /\ profile_cookie # None => ToggleCount(profile_cookie[1], meal_plan_id) < MaxToggles
    /\ toggle_req' = [toggle_req EXCEPT ![p] =
          IF profile_cookie = None
          THEN [IdleToggle EXCEPT !.pc = "done", !.status = 401]
          ELSE [IdleToggle EXCEPT !.pc = "select", !.profile_id = profile_cookie[1],
                                  !.meal_plan_id = meal_plan_id]]
    /\ UNCHANGED <<meal_checks, meal_checks_seq, toggles>>
    /\ ToggleUnchanged

\* lines 311-317: existing = the row of the pair, or None
ToggleSelect(p) ==
    /\ toggle_req[p].pc = "select"
    /\ LET rows == {c \in meal_checks : /\ c.profile_id = toggle_req[p].profile_id
                                        /\ c.meal_plan_id = toggle_req[p].meal_plan_id}
       IN  \E existing \in IF rows = {} THEN {None} ELSE {Some(c) : c \in rows} :
              toggle_req' = [toggle_req EXCEPT ![p].pc = "write",
                                               ![p].existing = existing]
    /\ UNCHANGED <<meal_checks, meal_checks_seq, toggles>>
    /\ ToggleUnchanged

\* lines 319-345: the UPDATE of the row read, by its id, to the flag computed from
\* what was read, or the INSERT, which the UNIQUE constraint or a foreign key can
\* refuse (sqlite3.IntegrityError, that nothing catches); then the commit
ToggleWrite(p) ==
    LET r == toggle_req[p]
        committed == toggles \cup
                        {[profile_id |-> r.profile_id, meal_plan_id |-> r.meal_plan_id,
                          n |-> ToggleCount(r.profile_id, r.meal_plan_id) + 1]}
    IN  /\ r.pc = "write"
        /\ IF r.existing # None
           THEN /\ meal_checks' =
                       {IF c.id = r.existing[1].id
                        THEN [c EXCEPT !.is_prepared = Flipped(r.existing[1].is_prepared)]
                        ELSE c : c \in meal_checks}
                /\ toggles' = committed
                /\ toggle_req' = [toggle_req EXCEPT ![p].pc = "done", ![p].status = 200]
                /\ UNCHANGED meal_checks_seq
           ELSE IF /\ r.profile_id \in profiles
                   /\ \E m \in meal_plans : m.id = r.meal_plan_id
                   /\ ~\E c \in meal_checks : /\ c.profile_id = r.profile_id
                                               /\ c.meal_plan_id = r.meal_plan_id
           THEN /\ meal_checks' = meal_checks \cup
                       {CheckRow(meal_checks_seq + 1, r.profile_id, r.meal_plan_id, 1)}
                /\ meal_checks_seq' = meal_checks_seq + 1
                /\ toggles' = committed
                /\ toggle_req' = [toggle_req EXCEPT ![p].pc = "done", ![p].status = 200]
           ELSE /\ toggle_req' = [toggle_req EXCEPT ![p].pc = "done", ![p].status = 500]
                /\ UNCHANGED <<meal_checks, meal_checks_seq, toggles>>
        /\ ToggleUnchanged

\* the client has the answer; the slot is free again
ToggleReturn(p) ==
    /\ toggle_req[p].pc = "done"
    /\ toggle_req' = [toggle_req EXCEPT ![p] = IdleToggle]
    /\ UNCHANGED <<meal_checks, meal_checks_seq, toggles>>
    /\ ToggleUnchanged

\* datetime.date: a date is the ordinal of its day (date.toordinal()), from date.min
\* to date.max; arithmetic that leaves the range raises OverflowError (None here)
DateMin == 1
DateMax == 3652059

Dates == DateMin..DateMax

\* a date column or parameter is text: the number d in Dates is the ISO text of day
\* d, NULL is the empty text, and NotADate is a text that is no ISO date (as
\* "tomorrow"; as text it sorts after every ISO date)
NotADate == DateMax + 1

\* the text of date d followed by further characters, as "2026-11-05x": no ISO date
DateJunk(d) == 0 - d

\* the place of a plan_date text in the order of SQLite's text comparison: ISO dates
\* are in the order of their days, the text of a date followed by further characters
\* comes after that date and before the next, and NotADate, a text that starts with
\* no digit, after all of these
TextKey(text) ==
    IF text \in Dates THEN 2 * text
    ELSE IF text < 0 THEN 2 * (0 - text) + 1
    ELSE 2 * DateMax + 2

\* text BETWEEN low AND high
Between(text, low, high) == TextKey(low) <= TextKey(text) /\ TextKey(text) <= TextKey(high)

\* date.fromisoformat(text); None when it raises ValueError
fromisoformat(text) == IF text \in Dates THEN Some(text) ELSE None

\* date.isoformat()
isoformat(d) == d

\* SQLite julianday(text); None is SQL NULL, the value for every text it cannot read
julianday(text) == IF text \in Dates THEN Some(text) ELSE None

\* date + timedelta(days=n)
DatePlus(d, n) == IF d + n \in Dates THEN Some(d + n) ELSE None

\* date.isoweekday(): Monday is 1
isoweekday(d) == ((d + 6) % 7) + 1

\* date.weekday(): Monday is 0; day 1 (0001-01-01) is a Monday
weekday(d) == (d + 6) % 7

Abs(n) == IF n < 0 THEN 0 - n ELSE n

\* the rows of every profile
VisibleToAnyone(pid) == meal_plans

\* WHERE profile_id IS NULL OR profile_id = ?
VisibleTo(pid) == {m \in meal_plans : m.profile_id = NULL \/ m.profile_id = pid}

\* the prepared meals of every profile
CheckedIdsAnyProfile(pid) ==
    {c.meal_plan_id : c \in {x \in meal_checks : x.is_prepared = 1}}

\* SELECT meal_plan_id FROM meal_checks WHERE profile_id = ? AND is_prepared = 1
CheckedIds(pid) ==
    {c.meal_plan_id : c \in {x \in meal_checks : x.profile_id = pid /\ x.is_prepared = 1}}

\* sum(m["calories"] for m in rows)
RECURSIVE SumCalories(_)
SumCalories(rows) ==
    IF rows = {} THEN 0
    ELSE LET m == CHOOSE x \in rows : TRUE
         IN  m.calories + SumCalories(rows \ {m})

\* the rows that ORDER BY ABS(julianday(plan_date) - julianday(today)) ASC LIMIT 1 may
\* return: a NULL key sorts before every number, ties are in no order
NearestRows(rows, today) ==
    LET unread == {m \in rows : julianday(m.plan_date) = None}
        dist(m) == Abs(julianday(m.plan_date)[1] - julianday(isoformat(today))[1])
    IN  IF unread # {} THEN unread
        ELSE {m \in rows : \A o \in rows : dist(m) <= dist(o)}

\* lines 220-226: the nearest date is looked for when no date was requested and today
\* has no row
SearchesNearest(explicit, count) == ~explicit /\ count = 0

\* the answer of a page request, before any of its fields is known
NoView ==
    [handler |-> "", status |-> 0, profile_id |-> NULL, today |-> NULL,
     view_date |-> None, week_offset |-> 0, selected_date |-> NULL, meals |-> {},
     organized |-> <<>>, total_calories |-> 0, checked_calories |-> 0,
     start_of_week |-> NULL, end_of_week |-> NULL, days |-> <<>>]

\* lines 264-274: what a slot keeps of a loaded row, with its is_checked flag
SlotMeal(meal, checked_ids) ==
    [id |-> meal.id, dish_name |-> meal.dish_name, calories |-> meal.calories,
     is_checked |-> meal.id \in checked_ids]

\* lines 253-274: one slot per meal type, in the order of MEAL_TYPE_ORDER (a dict keeps
\* the order of insertion); a loaded row goes to the slot of its meal_type
Organized(meals, checked_ids) ==
    [i \in 1..Len(MEAL_TYPE_ORDER) |->
        [meal_type |-> MEAL_TYPE_ORDER[i],
         meals |-> {SlotMeal(m, checked_ids) :
                       m \in {x \in meals : x.meal_type = MEAL_TYPE_ORDER[i]}}]]

\* lines 240-278 of dashboard: the loaded rows, the groupings and the two sums
DayView(v, pid, selected_date) ==
    LET meals == {m \in VisibleTo(pid) : m.plan_date = isoformat(selected_date)}
    IN  [v EXCEPT !.status = 200,
                  !.selected_date = selected_date,
                  !.meals = meals,
                  !.organized = Organized(meals, CheckedIds(pid)),
                  !.total_calories = SumCalories(meals),
                  !.checked_calories =
                      SumCalories({m \in meals : m.id \in CheckedIds(pid)})]

\* lines 285-302: the page is rendered with the dates of the day before and the day
\* after; selected_date - timedelta(days=1) and selected_date + timedelta(days=1)
\* raise OverflowError outside date.min..date.max, which nothing catches
Rendered(v, pid, selected_date) ==
    IF DatePlus(selected_date, -1) = None \/ DatePlus(selected_date, 1) = None
    THEN [v EXCEPT !.status = 500]
    ELSE DayView(v, pid, selected_date)

\* lines 194-302; profile_cookie is request.cookies.get("profile_id") as a number, or
\* None; view_date is None or a text; today is date.today()
dashboard(profile_cookie, view_date, today) ==
    LET v == [NoView EXCEPT !.handler = "dashboard", !.today = today,
                            !.view_date = view_date]
        explicit == view_date # None /\ view_date[1] # NULL
        requested == IF explicit /\ fromisoformat(view_date[1]) # None
                     THEN fromisoformat(view_date[1])[1]
                     ELSE today
    IN  /\ IF profile_cookie = None \/ profile_cookie[1] \notin profiles
           THEN view' = [v EXCEPT !.status = 302]
           ELSE LET pid == profile_cookie[1]
                    w == [v EXCEPT !.profile_id = pid]
                    count == Cardinality({m \in VisibleTo(pid) :
                                             m.plan_date = isoformat(today)})
                IN  IF ~SearchesNearest(explicit, count) \/ VisibleTo(pid) = {}
                    THEN view' = Rendered(w, pid, requested)
                    ELSE \E nearest \in NearestRows(VisibleTo(pid), today) :
                            view' = IF fromisoformat(nearest.plan_date) = None
                                    THEN [w EXCEPT !.status = 500]
                                    ELSE Rendered(w, pid,
                                                  fromisoformat(nearest.plan_date)[1])
        /\ UNCHANGED <<aiVars, mealVars, toggles, db, toggle_req, admin>>

\* lines 395-400 of history: the rows loaded for the week
WeekMeals(pid, start_of_week, end_of_week) ==
    {m \in VisibleTo(pid) :
        Between(m.plan_date, isoformat(start_of_week), isoformat(end_of_week))}

\* lines 409-433 of history: one bucket per day of the week; a loaded row is counted
\* in the bucket whose key is its plan_date ("if d_key in days")
WeekDays(meals, pid, start_of_week) ==
    [d \in start_of_week..(start_of_week + 6) |->
        LET bucket == {m \in meals : m.plan_date = isoformat(d)}
        IN  [date |-> d, meals |-> bucket, total |-> Cardinality(bucket),
             prepared |-> Cardinality({m \in bucket : m.id \in CheckedIds(pid)})]]

\* lines 379-450
history(profile_cookie, week_offset, today) ==
    LET v == [NoView EXCEPT !.handler = "history", !.today = today,
                            !.week_offset = week_offset]
        monday == DatePlus(today, 0 - weekday(today))
        start_of_week == IF monday = None THEN None
                         ELSE DatePlus(monday[1], 7 * week_offset)
        end_of_week == IF start_of_week = None THEN None
                       ELSE DatePlus(start_of_week[1], 6)
    IN  /\ view' =
              IF profile_cookie = None THEN [v EXCEPT !.status = 302]
              ELSE IF end_of_week = None
              THEN [v EXCEPT !.status = 500, !.profile_id = profile_cookie[1]]
              ELSE LET meals == WeekMeals(profile_cookie[1], start_of_week[1],
                                          end_of_week[1])
                   IN  [v EXCEPT !.status = 200, !.profile_id = profile_cookie[1],
                                 !.start_of_week = start_of_week[1],
                                 !.end_of_week = end_of_week[1],
                                 !.meals = meals,
                                 !.days = WeekDays(meals, profile_cookie[1],
                                                   start_of_week[1])]
        /\ UNCHANGED <<aiVars, mealVars, toggles, db, toggle_req, admin>>

\* lines 348-365: the dish of a meal plan row is looked up with query_ai
dish_info(p, meal_plan_id) ==
    \E m \in meal_plans :
        /\ m.id = meal_plan_id
        /\ Call(p, m.dish_name)

---------------------------------------------------------------------------
(* database.py get_db and the way every operation uses it:                    *)
(*     db = await get_db()                                                     *)
(*     try: ... finally: await db.close()                                      *)
(* A slot of db.ops is one operation in progress: which one, where it is, and  *)
(* how its try block was left.                                                 *)

\* the operations that open a connection (ai_service.py lines 13-57, main.py
\* lines 209-281 and 311-338)
DbOperations ==
    {"get_default_model", "get_cached_recipe", "cache_recipe", "dashboard", "toggle_meal"}

\* how the try block of an operation can be left; dashboard also returns from inside
\* it (lines 214-217)
Exits(operation) ==
    IF operation = "dashboard" THEN {"return", "early_return", "raise"}
    ELSE {"return", "raise"}

IdleOp == [operation |-> "", pc |-> "idle", exit |-> ""]

NoDb == [open |-> 0, ops |-> [p \in Procs |-> IdleOp]]

DbStep(p, pc, exit, open) ==
    /\ db' = [db EXCEPT !.ops[p].pc = pc, !.ops[p].exit = exit, !.open = open]
    /\ UNCHANGED <<aiVars, mealVars, view, toggles, toggle_req, admin>>

\* an operation is called and reaches its `db = await get_db()`
OperationCall(p, operation) ==
    /\ db.ops[p].pc = "idle"
    /\ db' = [db EXCEPT !.ops[p] = [operation |-> operation, pc |-> "get_db", exit |-> ""]]
    /\ UNCHANGED <<aiVars, mealVars, view, toggles, toggle_req, admin>>

\* get_db, line 13: aiosqlite.connect opens the connection
get_db_connect(p) ==
    /\ db.ops[p].pc = "get_db"
    /\ db.open < MaxOpen
    /\ DbStep(p, "pragma", "", db.open + 1)

\* get_db, lines 14-17: the two PRAGMA statements run on the open connection, outside
\* any try block; when one raises (as sqlite3.OperationalError, database is locked)
\* the exception leaves get_db and the operation that called it
get_db_pragma(p, raises) ==
    /\ db.ops[p].pc = "pragma"
    /\ IF raises THEN DbStep(p, "raised", "raise", db.open)
       ELSE DbStep(p, "try", "", db.open)

\* the try block of the operation runs and is left
OperationTry(p, exit) ==
    /\ db.ops[p].pc = "try"
    /\ exit \in Exits(db.ops[p].operation)
    /\ DbStep(p, "finally", exit, db.open)

\* finally: await db.close()
OperationFinally(p) ==
    /\ db.ops[p].pc = "finally"
    /\ DbStep(p, IF db.ops[p].exit = "raise" THEN "raised" ELSE "returned",
              db.ops[p].exit, db.open - 1)

\* the operation has returned or raised; its slot is free again
OperationEnd(p) ==
    /\ db.ops[p].pc \in {"returned", "raised"}
    /\ db' = [db EXCEPT !.ops[p] = IdleOp]
    /\ UNCHANGED <<aiVars, mealVars, view, toggles, toggle_req, admin>>

---------------------------------------------------------------------------
(* The system *)

EnvVars == {"GROQ_API_KEY", "OPENROUTER_API_KEY"}

Envs ==
    { [v \in EnvVars |-> IF v = "GROQ_API_KEY" THEN g ELSE o] :
        g \in {None, Some(EmptyStr), Some(GroqEnvKey)},
        o \in {None, Some(EmptyStr), Some(OpenRouterEnvKey)} }

\* the state after init_db() on a fresh database (database.py, lines 122-133)
Init ==
    /\ ai_models = SeedModels
    /\ ai_models_seq = 2
    /\ ai_recipe_cache = {}
    /\ env \in Envs
    /\ req = [p \in Procs |-> IdleReq]
    /\ profiles = {} /\ profiles_seq = 0
    /\ meal_plans = {} /\ meal_plans_seq = 0
    /\ meal_checks = {} /\ meal_checks_seq = 0
    /\ view = NoView
    /\ toggles = {}
    /\ db = NoDb
    /\ toggle_req = [p \in Procs |-> IdleToggle]
    /\ admin = SeedAdmin

\* requests are served one at a time
Next ==
    \/ query_ai(1)
    \/ Admin

Spec == Init /\ [][Next]_vars

\* two query_ai requests overlap, for names of one dish; both providers have an
\* environment key; the administrator may switch the default model

InitRace ==
    /\ Init
    /\ env = [v \in EnvVars |->
                 IF v = "GROQ_API_KEY" THEN Some(GroqEnvKey) ELSE Some(OpenRouterEnvKey)]

NextRace ==
    \/ \E p \in Procs :
          \/ \E d \in DishNames : Call(p, d)
          \/ QueryGetDefaultModel(p)
          \/ QueryGetCachedRecipe(p)
          \/ \E up \in Upstream : QueryPost(p, up)
          \/ QueryCacheRecipe(p)
          \/ QueryReturn(p)
    \/ \E cookie \in AdminCookies, i \in 1..MaxModelId : set_default_model(cookie, i)

SpecRace == InitRace /\ [][NextRace]_vars

\* the recipe lookup together with the administration of models and of meal plans,
\* its requests served one at a time; both providers have an environment key
AppDishInputs == {DalNoisy}
AppUploads ==
    { <<[plan_date |-> d, meal_type |-> "dinner", dish_name |-> n, calories |-> 350]>> :
         d \in {NULL, 1}, n \in {Dal, <<" ">>} }
AppUpstream == {up \in Upstream : up.raises = "ReadTimeout" \/ up.resp.has_content}

AppAdmin ==
    \E cookie \in AdminCookies :
        \/ Quiescent /\ add_model(cookie, "openrouter", <<" ">> \o GptOss,
                                  <<" ">> \o StoredKey)
        \/ \E i \in 1..MaxModelId : Quiescent /\ delete_model(cookie, i)
        \/ \E i \in 1..MaxModelId : Quiescent /\ set_default_model(cookie, i)

MealAdmin ==
    \E cookie \in AdminCookies :
        \/ \E t \in {"lunch", "brunch"}, n \in AppDishInputs, pid \in 0..MaxProfileId :
                Quiescent /\ add_meal_manual(cookie, 1, t, n, 350, pid)
        \/ \E i \in 1..MaxMealId : Quiescent /\ edit_meal(cookie, i, 2, "lunch", Dal, 420, 0)
        \/ \E i \in 1..MaxMealId : Quiescent /\ copy_meal(cookie, i, 2)
        \/ \E i \in 1..MaxMealId : Quiescent /\ delete_meal(cookie, i)
        \/ \E b \in {1, 2} : Quiescent /\ clear_week(cookie, 1, b)
        \/ \E rows \in AppUploads : Quiescent /\ upload_meals(cookie, rows)

NextApp ==
    \/ \E i \in 1..MaxMealId : dish_info(1, i)
    \/ QueryGetDefaultModel(1)
    \/ QueryGetCachedRecipe(1)
    \/ \E up \in AppUpstream : QueryPost(1, up)
    \/ QueryCacheRecipe(1)
    \/ QueryReturn(1)
    \/ AppAdmin
    \/ MealAdmin

SpecApp == InitRace /\ [][NextApp]_vars

\* the day view: the tables hold up to three meal plan rows, of 350, 420 and 480
\* calories, on any day, shared or of one of two profiles, and preparation checks of
\* both profiles; dashboard requests read them
ExampleCalories == <<350, 420, 480>>
DayProfiles == {1, 2}
DayDates == (DateMin + 1)..(DateMin + MaxDay)

DayRows(i) ==
    {MealRow(i, d, MEAL_TYPE_ORDER[i], Lower(Dal), ExampleCalories[i], pid) :
        d \in DayDates \cup {NotADate}, pid \in {NULL} \cup DayProfiles}

OptionalDayRow(i) == {{}} \cup {{row} : row \in DayRows(i)}

DayTables ==
    {a \cup b \cup c : a \in OptionalDayRow(1), b \in OptionalDayRow(2),
                       c \in OptionalDayRow(3)}

DayChecks ==
    { {},
      {CheckRow(1, 1, 2, 1)},
      {CheckRow(1, 1, 2, 1), CheckRow(2, 2, 1, 1), CheckRow(3, 1, 3, 0)} }

InitTables(tables) ==
    /\ ai_models = SeedModels
    /\ ai_models_seq = 2
    /\ ai_recipe_cache = {}
    /\ env = [v \in EnvVars |->
                 IF v = "GROQ_API_KEY" THEN Some(GroqEnvKey) ELSE Some(OpenRouterEnvKey)]
    /\ req = [p \in Procs |-> IdleReq]
    /\ profiles = DayProfiles /\ profiles_seq = 2
    /\ meal_plans \in tables /\ meal_plans_seq = Len(ExampleCalories)
    /\ \E checks \in DayChecks :
          meal_checks = {c \in checks : \E m \in meal_plans : m.id = c.meal_plan_id}
    /\ meal_checks_seq = 3
    /\ view = NoView
    /\ toggles = {}
    /\ db = NoDb
    /\ toggle_req = [p \in Procs |-> IdleToggle]
    /\ admin = SeedAdmin

InitDay == InitTables(DayTables)

ProfileCookies == {None, Some(1), Some(2), Some(3)}
DayViewDates ==
    {None, Some(NULL), Some(NotADate), Some(DateMin), Some(DateMax)}
        \cup {Some(d) : d \in DayDates}
DayTodays == {DateMin + 1, DateMin + 2}

\* a page request reads the tables and changes none, and its answer does not depend
\* on an earlier answer: one request per behaviour reaches every answer
NextDay ==
    \E cookie \in ProfileCookies, view_date \in DayViewDates, today \in DayTodays :
        view = NoView /\ dashboard(cookie, view_date, today)

SpecDay == InitDay /\ [][NextDay]_vars

\* the week view: row i, when present, is shared or of one of two profiles, and its
\* plan_date is the day after day i or that date followed by further characters;
\* history requests for days of the first two weeks and of the last week of the
\* calendar
WeekRows(i) ==
    {MealRow(i, t, MEAL_TYPE_ORDER[i], Lower(Dal), ExampleCalories[i], pid) :
        t \in {DateMin + i, DateJunk(DateMin + i)}, pid \in {NULL} \cup DayProfiles}

OptionalWeekRow(i) == {{}} \cup {{row} : row \in WeekRows(i)}

WeekTables ==
    {a \cup b \cup c : a \in OptionalWeekRow(1), b \in OptionalWeekRow(2),
                       c \in OptionalWeekRow(3)}
WeekTodays == {1, 2, 7, 8, 14, DateMax - 11, DateMax - 5, DateMax - 4, DateMax}
WeekOffsets == {0 - MaxWeeks, -1, 0, 1, MaxWeeks}

InitWeek == InitTables(WeekTables)

NextWeek ==
    \E cookie \in ProfileCookies, k \in WeekOffsets, today \in WeekTodays :
        view = NoView /\ history(cookie, k, today)

SpecWeek == InitWeek /\ [][NextWeek]_vars

\* the day view and the week view over the same tables, which hold rows of the
\* profile of the request, of the other profile and shared ones
ViewDates == {None} \cup {Some(d) : d \in DayDates}
ViewOffsets == {0, 1}

NextViews ==
    \E cookie \in ProfileCookies, today \in DayTodays :
        \/ \E view_date \in ViewDates : view = NoView /\ dashboard(cookie, view_date, today)
        \/ \E k \in ViewOffsets : view = NoView /\ history(cookie, k, today)

SpecViews == InitWeek /\ [][NextViews]_vars

\* preparation checks: two profiles and the shared rows 1 and 2, when present, with
\* no check yet; toggle_meal requests are served one at a time
ToggleTables ==
    {t \in WeekTables :
        \A m \in t : m.id \in {1, 2} /\ m.plan_date \in Dates /\ m.profile_id = NULL}

InitToggle == InitTables(ToggleTables) /\ meal_checks = {}

NextToggle ==
    \E cookie \in ProfileCookies, i \in 1..Len(ExampleCalories) : toggle_meal(cookie, i)

SpecToggle == InitToggle /\ [][NextToggle]_vars

\* two toggle_meal requests at a time, their steps in any order
RaceCookies == {None, Some(1)}

NextToggleRace ==
    \E p \in Procs :
        \/ \E cookie \in RaceCookies, i \in 1..2 : ToggleCall(p, cookie, i)
        \/ ToggleSelect(p)
        \/ ToggleWrite(p)
        \/ ToggleReturn(p)

SpecToggleRace == InitToggle /\ [][NextToggleRace]_vars

\* preparation checks while the administrator adds, edits, copies and deletes meal
\* plan rows, from the empty tables of init_db; requests are served one at a time
CheckCookies == {None, Some(1)}

NextChecks ==
    \/ create_profile
    \/ \E cookie \in CheckCookies, i \in 1..2 : toggle_meal(cookie, i)
    \/ \E cookie \in AdminCookies :
          \/ \E pid \in {0, 1} : add_meal_manual(cookie, 1, "lunch", Dal, 350, pid)
          \/ \E i \in 1..MaxMealId : edit_meal(cookie, i, 2, "lunch", Dal, 420, 0)
          \/ \E i \in 1..MaxMealId : copy_meal(cookie, i, 2)
          \/ \E i \in 1..MaxMealId : delete_meal(cookie, i)
          \/ \E b \in {1, 2} : clear_week(cookie, 1, b)

SpecChecks == InitRace /\ [][NextChecks]_vars

\* the admin operations requested without a session: the tables hold at most one
\* meal plan row, on any day, with or without a preparation check of profile 1; the
\* profiles toggle it, and every admin operation is requested with no admin_session
\* cookie or an empty one
NoSession == {None, Some(EmptyStr)}
Passwords == {"admin123", "s3cret"}

InitNoSession ==
    /\ ai_models = SeedModels
    /\ ai_models_seq = 2
    /\ ai_recipe_cache = {}
    /\ env = [v \in EnvVars |->
                 IF v = "GROQ_API_KEY" THEN Some(GroqEnvKey) ELSE Some(OpenRouterEnvKey)]
    /\ req = [p \in Procs |-> IdleReq]
    /\ profiles = DayProfiles /\ profiles_seq = 2
    /\ meal_plans \in OptionalDayRow(1) /\ meal_plans_seq = 1
    /\ \E checks \in DayChecks :
          meal_checks = {c \in checks : \E m \in meal_plans : m.id = c.meal_plan_id}
    /\ meal_checks_seq = 3
    /\ view = NoView
    /\ toggles = {}
    /\ db = NoDb
    /\ toggle_req = [p \in Procs |-> IdleToggle]
    /\ admin = SeedAdmin

NextNoSession ==
    \/ \E cookie \in {Some(1), Some(2)} : toggle_meal(cookie, 1)
    \/ \E cookie \in NoSession :
          \/ \E rows \in AppUploads : upload_meals(cookie, rows)
          \/ delete_meal(cookie, 1)
          \/ clear_week(cookie, DateMin, DateMax)
          \/ add_meal_manual(cookie, DateMin + 1, "lunch", Dal, 350, 0)
          \/ edit_meal(cookie, 1, DateMin + 2, "lunch", Dal, 420, 0)
          \/ copy_meal(cookie, 1, DateMin + 2)
          \/ add_model(cookie, "openrouter", GptOss, StoredKey)
          \/ \E i \in 1..2 : delete_model(cookie, i)
          \/ \E i \in 1..2 : set_default_model(cookie, i)
          \/ \E new_password \in Passwords :
                change_admin_password(cookie, "admin123", new_password)

SpecNoSession == InitNoSession /\ [][NextNoSession]_vars

\* operations on the store, two at a time, each with every way of leaving get_db and
\* its try block
NextConn ==
    \E p \in Procs :
        \/ \E operation \in DbOperations : OperationCall(p, operation)
        \/ get_db_connect(p)
        \/ \E raises \in BOOLEAN : get_db_pragma(p, raises)
        \/ \E exit \in {"return", "early_return", "raise"} : OperationTry(p, exit)
        \/ OperationFinally(p)
        \/ OperationEnd(p)

SpecConn == InitRace /\ [][NextConn]_vars

---------------------------------------------------------------------------
(* What the claims speak of *)

\* the request has read the cache and got no usable entry
Missed(r) == r.cache_reads = 1 /\ ~CacheHit(r.cached)

\* the environment variable of a provider
ProviderEnvVar(provider) ==
    IF provider = "groq" THEN "GROQ_API_KEY" ELSE "OPENROUTER_API_KEY"

EnvUnsetOrEmpty(name) == env[name] = None \/ env[name] = Some(EmptyStr)

HasCredential(m) == m.api_key # EmptyStr \/ ~EnvUnsetOrEmpty(ProviderEnvVar(m.provider))

\* the rows of the cache for a dish name as a reader normalises it (trim, then fold case)
EntriesFor(cache, dish_name, model_id) ==
    {r \in cache : r.dish_name = Lower(Strip(dish_name)) /\ r.model_id = model_id}

\* d1 and d2 differ only in letter case and leading or trailing whitespace
CaseSpaceVariants(d1, d2) ==
    /\ Len(Strip(d1)) = Len(Strip(d2))
    /\ \A i \in 1..Len(Strip(d1)) : LowerChar(Strip(d1)[i]) = LowerChar(Strip(d2)[i])

---------------------------------------------------------------------------
(* The claims *)

\* C1: a query_ai call made while the cache holds an entry for its key returns the
\* entry's stored HTML verbatim, with no upstream call and no cache write, whatever
\* the stored HTML is. Violated: an entry whose HTML is the empty string is read as
\* a miss.
C1_EntryIsReturned ==
    \A p \in Procs :
        (req[p].cache_reads = 1 /\ req[p].cached # None) =>
            /\ req[p].pc = "done"
            /\ req[p].result = req[p].cached
            /\ req[p].posts = 0
            /\ req[p].cache_writes = 0

\* C2: after a miss, with a credential resolved and the upstream answering with
\* content c, there is exactly one cache write, the cache maps the key to c alone,
\* and c is returned.
C2_SuccessIsCached ==
    \A p \in Procs :
        (req[p].pc = "done" /\ req[p].content # None) =>
            /\ Missed(req[p])
            /\ HasCredential(req[p].model)
            /\ req[p].posts = 1
            /\ req[p].cache_writes = 1
            /\ req[p].result = req[p].content
            /\ EntriesFor(ai_recipe_cache, req[p].dish_name, req[p].model.model_id)
                  = {CacheRow(Lower(Strip(req[p].dish_name)), req[p].model.model_id,
                              req[p].content[1])}

\* a successful miss that overwrote the entry it had read
C2_Witness ==
    \E p \in Procs :
        /\ req[p].pc = "done"
        /\ req[p].content = Some(RecipeHtml)
        /\ req[p].cached = Some(EmptyStr)
        /\ req[p].dish_name = DalNoisy
        /\ req[p].cache_writes = 1

\* the upstream call of request p has just failed
UpstreamFailed(p) ==
    /\ req'[p].pc = "done"
    /\ \/ req[p].pc = "post"
       \/ req[p].pc = "cache_recipe" /\ req[p].content = None

\* C3: when the upstream call fails, the cache is unchanged and nothing was written,
\* the returned fragment is non-empty, and the same call made again misses the
\* cache and goes to the upstream again.
C3_FailureCachesNothing ==
    [][\A p \in Procs :
          UpstreamFailed(p) =>
              /\ ai_recipe_cache' = ai_recipe_cache
              /\ req'[p].cache_writes = 0
              /\ req'[p].result # None
              /\ req'[p].result[1] # EmptyStr
              /\ \A c \in get_cached_recipe(ai_recipe_cache', req[p].dish_name,
                                            req[p].model.model_id) : ~CacheHit(c)
              /\ AfterMiss([IdleReq EXCEPT !.model = req[p].model]).pc = "post"]_vars

\* a request that ended on a timeout
C3_Witness ==
    \E p \in Procs :
        /\ req[p].pc = "done"
        /\ req[p].posts = 1
        /\ req[p].cache_writes = 0
        /\ req[p].result = Some(TimeoutFragment)

\* C4, as claimed: every invocation that misses the cache performs exactly one POST.
\* Violated: a miss with no resolvable credential performs none.
C4_EveryMissPosts ==
    \A p \in Procs :
        /\ req[p].posts <= 1
        /\ (req[p].pc = "done" /\ Missed(req[p])) => req[p].posts = 1

\* C4, amended: an invocation that misses the cache performs exactly one POST when a
\* credential is resolvable and none when it is not; no invocation performs more
\* than one, and one that does not miss performs none.
C4_MissWithCredentialPostsOnce ==
    \A p \in Procs :
        /\ req[p].posts <= 1
        /\ req[p].pc = "done" =>
              (req[p].posts = 1 <=> (Missed(req[p]) /\ HasCredential(req[p].model)))

\* a miss that went to the upstream once, and ended
C4_Witness ==
    \E p \in Procs :
        req[p].pc = "done" /\ Missed(req[p]) /\ req[p].posts = 1

\* C5: whatever the configuration and the upstream's answer, query_ai returns an HTML
\* string and raises nothing.
C5_NeverRaises ==
    \A p \in Procs :
        req[p].pc = "done" => (req[p].raised = "" /\ req[p].result # None)

\* a network error, returned as the catch-all fragment
C5_Witness ==
    \E p \in Procs :
        /\ req[p].pc = "done"
        /\ req[p].result = Some(GenericFragment("ConnectError"))

\* C6: the model is a row flagged default when there is one, else one of the rows,
\* and with an empty table the call returns the "No AI model configured" fragment
\* without reading or writing the cache and without an upstream call.
C6_ModelResolution ==
    \A p \in Procs :
        req[p].pc \notin {"idle", "get_default_model"} =>
            IF ai_models = {}
            THEN /\ req[p].pc = "done"
                 /\ req[p].result = Some(NoModelFragment)
                 /\ req[p].cache_reads = 0
                 /\ req[p].cache_writes = 0
                 /\ req[p].posts = 0
            ELSE /\ req[p].model \in ai_models
                 /\ (\E m \in ai_models : m.is_default = 1) => req[p].model.is_default = 1
                 /\ req[p].result # Some(NoModelFragment)

\* no row is flagged, and the call goes on with a row that is not the first
C6_Witness ==
    \E p \in Procs :
        /\ req[p].pc = "get_cached_recipe"
        /\ req[p].model.is_default = 0
        /\ req[p].model.id = 2
        /\ Cardinality(ai_models) > 1

\* C7: on a miss, with no stored api_key and the provider's environment variable
\* unset or empty, the call returns the missing-credential fragment naming the
\* provider, with no upstream call and no cache write.
C7_MissingCredential ==
    \A p \in Procs :
        (Missed(req[p]) /\ ~HasCredential(req[p].model)) =>
            /\ req[p].pc = "done"
            /\ req[p].result = Some(MissingKeyFragment(req[p].model.provider))
            /\ req[p].result[1][2] = req[p].model.provider
            /\ req[p].posts = 0
            /\ req[p].cache_writes = 0

\* groq has no key anywhere, while the other provider's variable is set
C7_Witness ==
    \E p \in Procs :
        /\ req[p].pc = "done"
        /\ Missed(req[p])
        /\ req[p].model.provider = "groq"
        /\ env["GROQ_API_KEY"] = Some(EmptyStr)
        /\ env["OPENROUTER_API_KEY"] = Some(OpenRouterEnvKey)
        /\ req[p].result = Some(MissingKeyFragment("groq"))

\* C8: after a successful uncached query_ai(d1), a query_ai(d2) for a d2 that differs
\* from d1 only in case and outer whitespace, under the same model, is a cache hit
\* returning the content stored for d1. Violated: content "" is stored and is never
\* a hit (the defect of C1).
C8_VariantsHit ==
    \A p \in Procs, d2 \in DishNames :
        (/\ req[p].pc = "done"
         /\ req[p].cache_writes = 1
         /\ d2 # req[p].dish_name
         /\ CaseSpaceVariants(req[p].dish_name, d2)) =>
            \A c \in get_cached_recipe(ai_recipe_cache, d2, req[p].model.model_id) :
                CacheHit(c) /\ c[1] = req[p].content[1]

\* C9: the cache holds at most one entry per (dish_name, model_id), also after
\* overlapping query_ai calls; a write to an existing key replaces the entry.
C9_OneEntryPerKey ==
    \A r1, r2 \in ai_recipe_cache :
        (r1.dish_name = r2.dish_name /\ r1.model_id = r2.model_id) => r1 = r2

\* two overlapping requests have both written the same key, with different content
C9_Witness ==
    /\ req[1].pc = "done" /\ req[2].pc = "done"
    /\ req[1].cache_writes = 1 /\ req[2].cache_writes = 1
    /\ NormDish(req[1].dish_name) = NormDish(req[2].dish_name)
    /\ req[1].model.model_id = req[2].model.model_id
    /\ req[1].content # req[2].content

\* C10: a key of the cache that has an entry keeps an entry through every request
\* (lookups, add_model, delete_model, set_default_model, meal uploads, edits, copies
\* and deletes), and an entry that is served as a hit stays as it is and is served
\* again by every later lookup of its key, whichever models were the default in
\* between.
C10_EntriesPersist ==
    /\ [][\A r \in ai_recipe_cache :
             /\ \E r2 \in ai_recipe_cache' :
                   r2.dish_name = r.dish_name /\ r2.model_id = r.model_id
             /\ CacheHit(Some(r.recipe_html)) => r \in ai_recipe_cache']_vars
    /\ [](\A p \in Procs : \A r \in ai_recipe_cache :
             /\ req[p].pc = "done"
             /\ req[p].cache_reads = 1
             /\ req[p].cache_writes = 0
             /\ r.dish_name = NormDish(req[p].dish_name)
             /\ r.model_id = req[p].model.model_id
             /\ CacheHit(Some(r.recipe_html))
             => req[p].result = Some(r.recipe_html) /\ req[p].posts = 0)

\* a hit under the first model while the cache also holds a recipe of the other
\* model, after a meal plan row was deleted
C10_Witness ==
    \E p \in Procs :
        /\ req[p].pc = "done"
        /\ req[p].model.id = 1
        /\ req[p].posts = 0
        /\ req[p].result = Some(RecipeHtml)
        /\ \E r \in ai_recipe_cache : r.model_id = Trinity
        /\ Cardinality(meal_plans) < meal_plans_seq

\* the rows of the profile of the answer that are on day d
VisibleOn(d) == {m \in VisibleTo(view.profile_id) : m.plan_date = d}

\* the ids of the meals in slot i of the day view
SlotIds(i) == {x.id : x \in view.organized[i].meals}

\* the dashboard answered a request of an existing profile that named no date
DefaultDayView ==
    view.handler = "dashboard" /\ view.profile_id # NULL /\ view.view_date = None

\* C11: a dashboard request with no view_date shows today when today has a visible
\* row; else, when some visible row exists, a date that has a visible row and is at
\* the least distance from today among the dates of visible rows, with the rows of
\* that date; else today with empty groupings. Violated: a visible row whose
\* plan_date is no ISO date is taken for the nearest one, and the request fails.
C11_DefaultDate ==
    DefaultDayView =>
        /\ view.status = 200
        /\ view.meals = VisibleOn(view.selected_date)
        /\ IF VisibleOn(view.today) # {} THEN view.selected_date = view.today
           ELSE IF VisibleTo(view.profile_id) # {}
           THEN /\ view.meals # {}
                /\ \A m \in VisibleTo(view.profile_id) :
                      m.plan_date \in Dates =>
                         Abs(view.selected_date - view.today) <=
                            Abs(m.plan_date - view.today)
           ELSE /\ view.selected_date = view.today
                /\ \A i \in DOMAIN view.organized : view.organized[i].meals = {}

\* C12: a dashboard request that names a date shows exactly that date, with the
\* visible rows of that date and no others, also when the date has none. Violated:
\* a request that names date.min or date.max has no answer (see C23).
C12_ExplicitDate ==
    (/\ view.handler = "dashboard"
     /\ view.profile_id # NULL
     /\ view.view_date # None
     /\ view.view_date[1] \in Dates) =>
        /\ view.status = 200
        /\ view.selected_date = view.view_date[1]
        /\ view.meals = VisibleOn(view.view_date[1])
        /\ \A i \in DOMAIN view.organized :
              SlotIds(i) = {m.id : m \in {x \in VisibleOn(view.view_date[1]) :
                                             x.meal_type = view.organized[i].meal_type}}

\* the calories of row i when it is among the rows shown (and prepared), else 0
ShownCalories(i, prepared) ==
    IF /\ \E m \in view.meals : m.id = i
       /\ prepared => \E c \in meal_checks : /\ c.profile_id = view.profile_id
                                             /\ c.meal_plan_id = i
                                             /\ c.is_prepared = 1
    THEN ExampleCalories[i] ELSE 0

\* C13: total_calories is the sum of the calories of the rows shown, and
\* checked_calories the sum over the rows shown that the profile of the request has
\* marked prepared: 1250 and 420 for rows of 350, 420 and 480 with the 420 one
\* prepared, 0 prepared calories without a prepared row, 0 and 0 without rows.
C13_DayTotals ==
    (view.handler = "dashboard" /\ view.status = 200) =>
        /\ view.total_calories =
              ShownCalories(1, FALSE) + ShownCalories(2, FALSE) + ShownCalories(3, FALSE)
        /\ view.checked_calories =
              ShownCalories(1, TRUE) + ShownCalories(2, TRUE) + ShownCalories(3, TRUE)
        /\ (/\ Cardinality(view.meals) = 3
            /\ \A c \in meal_checks :
                  (c.profile_id = view.profile_id /\ c.is_prepared = 1)
                     => c.meal_plan_id = 2)
              => view.total_calories = 1250
        /\ view.meals = {} => view.total_calories = 0 /\ view.checked_calories = 0

\* three rows shown, the 420 one prepared by the profile, another one by the other
\* profile: 1250 and 420
C13_Witness ==
    /\ view.handler = "dashboard"
    /\ view.profile_id = 1
    /\ Cardinality(view.meals) = 3
    /\ \E c \in meal_checks : c.profile_id = 2 /\ c.meal_plan_id = 1 /\ c.is_prepared = 1
    /\ view.total_calories = 1250
    /\ view.checked_calories = 420

\* the history answered a request that carried a profile cookie
WeekView == view.handler = "history" /\ view.status # 302

\* the week of the request: Monday is a day d with d % 7 = 1, as day 1 is a Monday
WeekIsAsClaimed ==
    /\ view.status = 200
    /\ view.start_of_week % 7 = 1
    /\ view.start_of_week <= view.today + 7 * view.week_offset
    /\ view.today + 7 * view.week_offset <= view.start_of_week + 6
    /\ DOMAIN view.days = view.start_of_week..(view.start_of_week + 6)
    /\ Cardinality(DOMAIN view.days) = 7
    /\ \A d \in DOMAIN view.days :
          /\ view.days[d].date = d
          /\ view.days[d].meals = VisibleOn(d)
          /\ view.days[d].total = Cardinality(VisibleOn(d))

ChecksOf(profile_id, meal_plan_id) ==
    {c \in meal_checks : c.profile_id = profile_id /\ c.meal_plan_id = meal_plan_id}

\* C15: under toggle_meal requests served one at a time a (profile, meal) pair has at
\* most one meal_checks row; the first toggle creates it with is_prepared = 1 and each
\* later one flips the flag of that same row, so after n toggles the flag is n mod 2.
C15_ToggleParity ==
    /\ [](\A pid \in DayProfiles \cup {3}, i \in 1..Len(ExampleCalories) :
             IF ToggleCount(pid, i) = 0 THEN ChecksOf(pid, i) = {}
             ELSE /\ Cardinality(ChecksOf(pid, i)) = 1
                  /\ \A c \in ChecksOf(pid, i) : c.is_prepared = ToggleCount(pid, i) % 2)
    /\ [][\A c \in meal_checks : \E c2 \in meal_checks' :
             /\ c2.id = c.id
             /\ c2.profile_id = c.profile_id
             /\ c2.meal_plan_id = c.meal_plan_id]_vars

\* one pair toggled three times and prepared, another toggled twice and not prepared
C15_Witness ==
    /\ ToggleCount(1, 1) = 3
    /\ \E c \in ChecksOf(1, 1) : c.is_prepared = 1
    /\ ToggleCount(2, 1) = 2
    /\ \E c \in ChecksOf(2, 1) : c.is_prepared = 0

\* C16: every meal_checks row references an existing meal_plans row in every state,
\* and a step that deletes meal plan rows (delete_meal, clear_week) leaves no
\* meal_checks row of a deleted meal.
C16_ChecksFollowMeals ==
    /\ [](\A c \in meal_checks : \E m \in meal_plans : m.id = c.meal_plan_id)
    /\ [][\A m \in meal_plans :
             (\A m2 \in meal_plans' : m2.id # m.id) =>
                 \A c \in meal_checks' : c.meal_plan_id # m.id]_vars

\* a meal that had a preparation check was deleted; another meal is left
C16_Witness ==
    /\ meal_checks_seq = 1
    /\ meal_checks = {}
    /\ Cardinality(meal_plans) = 1
    /\ meal_plans_seq = 2

\* the rows of ai_models flagged as default
Defaults(rows) == {m \in rows : m.is_default = 1}

\* C17: in every state reached by add_model, delete_model and set_default_model at
\* most one ai_models row is flagged default, and after set_default_model(id) of an
\* existing id that row is the only one flagged and the one get_default_model
\* returns.
C17_OneDefault ==
    /\ [](Cardinality(Defaults(ai_models)) <= 1)
    /\ [][\A i \in 1..MaxModelId :
             (/\ set_default_model(Some(<<"1">>), i)
              /\ \E m \in ai_models : m.id = i) =>
                 /\ \A m \in Defaults(ai_models') : m.id = i
                 /\ \E m \in Defaults(ai_models') : m.id = i
                 /\ get_default_model(ai_models') = Defaults(ai_models')]_vars

\* a model added by the administrator was made the default: it is the only one
C17_Witness ==
    /\ Cardinality(ai_models) = 3
    /\ \A m \in ai_models : m.is_default = 1 <=> m.id = 3

\* request p and request q were for the same cache key
SameKey(p, q) ==
    /\ NormDish(req[p].dish_name) = NormDish(req[q].dish_name)
    /\ req[p].model.model_id = req[q].model.model_id

\* C18: two overlapping query_ai requests for one uncached key can both miss and
\* both post; the cache changes only in a step in which a request writes, after which
\* the key holds the content of that request alone, so that after both have written
\* the key has one entry, with the content of the later write.
C18_LastWriteWins ==
    /\ [][/\ ai_recipe_cache' # ai_recipe_cache =>
                \E p \in Procs : req'[p].cache_writes = req[p].cache_writes + 1
          /\ \A p \in Procs :
                req'[p].cache_writes = req[p].cache_writes + 1 =>
                    EntriesFor(ai_recipe_cache', req[p].dish_name, req[p].model.model_id)
                       = {CacheRow(NormDish(req[p].dish_name), req[p].model.model_id,
                                   req[p].content[1])}]_vars
    /\ [](\A p, q \in Procs :
             (/\ p # q
              /\ req[p].pc = "done" /\ req[p].cache_writes = 1
              /\ req[q].pc = "done" /\ req[q].cache_writes = 1
              /\ SameKey(p, q)) =>
                 \E r \in ai_recipe_cache :
                    /\ EntriesFor(ai_recipe_cache, req[p].dish_name,
                                  req[p].model.model_id) = {r}
                    /\ r.recipe_html \in {req[p].content[1], req[q].content[1]})

\* both requests missed the cache, both posted, both wrote the key; the entry is the
\* content of the second request and not that of the first
C18_Witness ==
    /\ SameKey(1, 2)
    /\ \A p \in Procs : /\ req[p].pc = "done"
                        /\ req[p].cached = None
                        /\ req[p].posts = 1
                        /\ req[p].cache_writes = 1
    /\ req[1].content = Some(EmptyStr)
    /\ req[2].content = Some(RecipeHtml)
    /\ \E r \in ai_recipe_cache : r.recipe_html = RecipeHtml

\* the request has reached the POST to the provider (lines 122-150)
ReachedPost(r) == r.pc = "post" \/ r.posts > 0

\* the fixed endpoint of a provider
ProviderEndpoint(provider) ==
    IF provider = "groq" THEN GROQ_API_URL ELSE OPENROUTER_API_URL

\* C20: a request that reaches the POST sends the stored api_key of its model row when
\* that key is not empty, also when the provider's environment variable is set; with
\* an empty stored key it sends the environment variable of the row's own provider;
\* and it is addressed to the fixed endpoint of that provider.
C20_CredentialPrecedence ==
    \A p \in Procs :
        ReachedPost(req[p]) =>
            /\ req[p].model.provider \in Providers
            /\ req[p].api_url = ProviderEndpoint(req[p].model.provider)
            /\ req[p].api_key # EmptyStr
            /\ req[p].api_key =
                  IF req[p].model.api_key # EmptyStr
                  THEN req[p].model.api_key
                  ELSE EnvGet(ProviderEnvVar(req[p].model.provider))

\* a request has posted with the stored key of an openrouter row while
\* OPENROUTER_API_KEY and GROQ_API_KEY are both set
C20_Witness ==
    \E p \in Procs :
        /\ req[p].posts = 1
        /\ req[p].model.provider = "openrouter"
        /\ req[p].model.api_key = StoredKey
        /\ req[p].api_key = StoredKey
        /\ req[p].api_url = OPENROUTER_API_URL
        /\ env["OPENROUTER_API_KEY"] = Some(OpenRouterEnvKey)
        /\ env["GROQ_API_KEY"] = Some(GroqEnvKey)

\* the operations that hold a connection: between aiosqlite.connect and db.close()
HoldingConnection == {p \in Procs : db.ops[p].pc \in {"pragma", "try", "finally"}}

\* C19: the connection an operation opened with get_db is closed when the operation
\* has returned or raised, on every exit path: the open connections are those of the
\* operations still in progress, and none is open when no operation is in progress.
C19_ConnectionsClosed ==
    /\ db.open = Cardinality(HoldingConnection)
    /\ (\A p \in Procs : db.ops[p].pc = "idle") => db.open = 0

\* the kind of an upstream failure, by the class of the exception
FailureKind(type) ==
    CASE type = "ReadTimeout"     -> "timeout"
      [] type = "HTTPStatusError" -> "status"
      [] OTHER                    -> "other"

\* the kind of failure an error fragment reports, by its opening text
FragmentKind(fragment) ==
    IF fragment = TimeoutFragment THEN "timeout"
    ELSE IF fragment # <<>> /\ Head(fragment) = "<p class='error'>AI service error: "
         THEN "status"
    ELSE IF fragment # <<>> /\ Head(fragment) = "<p class='error'>Error querying AI: "
         THEN "other"
    ELSE ""

\* the text of a fragment between its first n pieces and its closing piece
Inner(fragment, n) == SubSeq(fragment, n + 1, Len(fragment) - 1)

\* C21: a request that ended on an upstream failure returns the fragment of that
\* failure's kind and of no other: the fixed timeout fragment for a timeout; for a
\* non-2xx status the status code followed by the first 200 characters of the body,
\* never more; for any other failure the catch-all fragment with the description.
C21_FragmentPerFailure ==
    \A p \in Procs :
        (req[p].pc = "done" /\ req[p].exc # None) =>
            LET e == req[p].exc[1]
                fragment == req[p].result[1]
            IN  /\ req[p].result # None
                /\ FragmentKind(fragment) = FailureKind(e.type)
                /\ FailureKind(e.type) = "status" =>
                      /\ fragment[2] = e.status_code
                      /\ Inner(fragment, 3) = Prefix(e.text, BodyExcerptLen)
                      /\ Len(Inner(fragment, 3)) <= BodyExcerptLen
                /\ FailureKind(e.type) = "other" =>
                      Inner(fragment, 1) = <<e.msg>>

\* a status error with a body longer than the excerpt, reported with the excerpt only
C21_Witness ==
    \E p \in Procs :
        /\ req[p].pc = "done"
        /\ req[p].exc # None
        /\ req[p].exc[1].type = "HTTPStatusError"
        /\ Len(req[p].exc[1].text) > BodyExcerptLen
        /\ Len(Inner(req[p].result[1], 3)) = BodyExcerptLen

\* the dashboard answered a request of an existing profile
AnyDayView == view.handler = "dashboard" /\ view.profile_id # NULL

\* every stored plan_date is an ISO date
AllDatesReadable == \A m \in meal_plans : m.plan_date \in Dates

\* the day view has the six slots in their order, every loaded row is in the slot of
\* its meal_type and in no other, and is_checked tells whether the profile of the
\* request has a meal_checks row with is_prepared = 1 for the meal
GroupedAsClaimed ==
    /\ Len(view.organized) = 6
    /\ [i \in 1..6 |-> view.organized[i].meal_type] =
          <<"breakfast", "morning_snack", "lunch", "afternoon_snack", "dinner",
            "evening_snack">>
    /\ \A m \in view.meals : \A i \in 1..6 :
          m.id \in SlotIds(i) <=> view.organized[i].meal_type = m.meal_type
    /\ \A i \in 1..6 : SlotIds(i) \subseteq {m.id : m \in view.meals}
    /\ Cardinality(SlotIds(1)) + Cardinality(SlotIds(2)) + Cardinality(SlotIds(3))
          + Cardinality(SlotIds(4)) + Cardinality(SlotIds(5)) + Cardinality(SlotIds(6))
       = Cardinality(view.meals)
    /\ \A i \in 1..6 : \A x \in view.organized[i].meals :
          x.is_checked <=> \E c \in meal_checks : /\ c.profile_id = view.profile_id
                                                  /\ c.meal_plan_id = x.id
                                                  /\ c.is_prepared = 1
    /\ view.meals = {} => \A i \in 1..6 : view.organized[i].meals = {}

\* C23: every dashboard request of an existing profile is answered, never with an
\* error, also for a date without meals, and the answer has the six slots in the
\* fixed order, every loaded row in exactly the slot of its meal_type, and is_checked
\* true exactly for the meals the profile has marked prepared. Violated: a request
\* whose date is date.min or date.max ends in an OverflowError.
C23_DayGrouping ==
    (AnyDayView /\ AllDatesReadable) => (view.status = 200 /\ GroupedAsClaimed)

\* the sum of the totals of the buckets of the days ds
RECURSIVE SumTotals(_)
SumTotals(ds) ==
    IF ds = {} THEN 0
    ELSE LET d == CHOOSE x \in ds : TRUE
         IN  view.days[d].total + SumTotals(ds \ {d})

\* the rows of the bucket of day d that the profile of the request has marked prepared
PreparedOn(d) ==
    {m \in VisibleOn(d) : \E c \in meal_checks : /\ c.profile_id = view.profile_id
                                                 /\ c.meal_plan_id = m.id
                                                 /\ c.is_prepared = 1}

\* C24: in the week view every bucket's total is the number of rows visible to the
\* profile on its date and its prepared count the number of those the profile has
\* marked prepared, between 0 and the total; and the seven totals add up to the
\* number of rows loaded for the week. Violated: a row whose plan_date is the text of
\* a date of the week followed by further characters is loaded and counted nowhere.
C24_WeekCounts ==
    (view.handler = "history" /\ view.status = 200) =>
        /\ \A d \in DOMAIN view.days :
              /\ view.days[d].total = Cardinality(VisibleOn(d))
              /\ view.days[d].prepared = Cardinality(PreparedOn(d))
              /\ 0 <= view.days[d].prepared
              /\ view.days[d].prepared <= view.days[d].total
        /\ SumTotals(DOMAIN view.days) = Cardinality(view.meals)

\* row m is shared or belongs to the profile of the answer
OwnOrShared(m) == m.profile_id = NULL \/ m.profile_id = view.profile_id

\* the shared and own rows whose plan_date is day d
OwnOrSharedOn(d) == {m \in meal_plans : m.plan_date = d /\ OwnOrShared(m)}

\* C22: the day view and the week view of a profile hold exactly the rows of the
\* shown dates that are shared or the profile's own: no row of another profile is
\* shown or counted in the calorie totals or the bucket counts, and the date the
\* nearest-date fallback selects has a shared or own row.
C22_OnlyVisibleRows ==
    /\ (view.handler = "dashboard" /\ view.status = 200) =>
          /\ view.meals = OwnOrSharedOn(view.selected_date)
          /\ \A i \in DOMAIN view.organized :
                SlotIds(i) \subseteq {m.id : m \in OwnOrSharedOn(view.selected_date)}
          /\ view.total_calories = SumCalories(OwnOrSharedOn(view.selected_date))
          /\ view.checked_calories <= view.total_calories
          /\ (view.view_date = None /\ view.selected_date # view.today) =>
                OwnOrSharedOn(view.selected_date) # {}
    /\ (view.handler = "history" /\ view.status = 200) =>
          /\ \A m \in view.meals : OwnOrShared(m)
          /\ \A d \in DOMAIN view.days :
                /\ view.days[d].meals = OwnOrSharedOn(d)
                /\ view.days[d].total = Cardinality(OwnOrSharedOn(d))

\* today has a row of the other profile only: the fallback passes it over and shows
\* the next day, which has a shared row
C22_Witness ==
    /\ view.handler = "dashboard"
    /\ view.status = 200
    /\ view.profile_id = 1
    /\ view.view_date = None
    /\ \E m \in meal_plans : m.plan_date = view.today /\ m.profile_id = 2
    /\ view.selected_date = view.today + 1
    /\ \A m \in view.meals : m.profile_id = NULL

\* C25: the cache is read before the provider and the credential are resolved: a
\* lookup made while the cache holds an entry for the normalised dish and the
\* model_id of the resolved row returns the entry's HTML and goes no further,
\* whatever the provider of the row and whether or not a credential is resolvable
\* for it. Violated: an entry whose HTML is the empty string is read as a miss (the
\* defect of C1), and the call goes on to the credential.
C25_CacheBeforeCredential ==
    [][\A p \in Procs :
          (req[p].pc = "get_cached_recipe" /\ req'[p] # req[p]) =>
              \A r \in EntriesFor(ai_recipe_cache, req[p].dish_name,
                                  req[p].model.model_id) :
                  /\ req'[p].pc = "done"
                  /\ req'[p].result = Some(r.recipe_html)
                  /\ req'[p].posts = 0]_vars

\* C26: overlapping toggle_meal requests of one (profile, meal) pair all complete
\* without error and leave what the same requests one after the other would leave:
\* one meal_checks row for the pair, its flag flipped once per request. Violated:
\* both requests read the row (or its absence) before either writes, so the second
\* INSERT is refused, or the second UPDATE writes the flag the first one wrote.
C26_OverlapAsSequential ==
    /\ \A p \in Procs :
          (/\ toggle_req[p].pc = "done"
           /\ toggle_req[p].profile_id \in profiles
           /\ \E m \in meal_plans : m.id = toggle_req[p].meal_plan_id) =>
              toggle_req[p].status = 200
    /\ (\A p \in Procs : toggle_req[p].pc \in {"idle", "done"}) =>
          \A pid \in profiles : \A m \in meal_plans :
              IF ToggleCount(pid, m.id) = 0 THEN ChecksOf(pid, m.id) = {}
              ELSE \E c \in meal_checks :
                      /\ ChecksOf(pid, m.id) = {c}
                      /\ c.is_prepared = ToggleCount(pid, m.id) % 2

\* the calories of the meals visible to profile q that q has marked prepared
CheckedCaloriesOf(q) == SumCalories({m \in VisibleTo(q) : m.id \in CheckedIds(q)})

\* row c is the meal_checks row of the pair of toggle record t
OfPair(c, t) == c.profile_id = t.profile_id /\ c.meal_plan_id = t.meal_plan_id

\* C27: a toggle_meal request of profile p for meal m changes the meal_checks row of
\* the pair (p, m) and nothing else: meal_plans, the recipe cache, ai_models and the
\* meal_checks rows of every other pair stay as they are, and so do, for every other
\* profile, its set of prepared meals and its checked-calorie total, also for a
\* shared meal.
C27_ToggleFrame ==
    [][/\ meal_plans' = meal_plans
       /\ ai_recipe_cache' = ai_recipe_cache
       /\ ai_models' = ai_models
       /\ toggles' = toggles => meal_checks' = meal_checks
       /\ \A t \in toggles' \ toggles :
             /\ \A c \in meal_checks : ~OfPair(c, t) => c \in meal_checks'
             /\ \A c \in meal_checks' : ~OfPair(c, t) => c \in meal_checks
             /\ \A q \in profiles \ {t.profile_id} :
                   /\ CheckedIds(q)' = CheckedIds(q)
                   /\ CheckedCaloriesOf(q)' = CheckedCaloriesOf(q)]_vars

\* both profiles have toggled the shared meal 1, profile 1 twice and profile 2 once:
\* it is prepared for profile 2 alone
C27_Witness ==
    /\ ToggleCount(1, 1) = 2
    /\ ToggleCount(2, 1) = 1
    /\ CheckedIds(1) = {}
    /\ CheckedIds(2) = {1}
    /\ CheckedCaloriesOf(2) = 350
    /\ \E m \in meal_plans : m.id = 1 /\ m.profile_id = NULL

\* C28: every admin operation that changes state (upload_meals, delete_meal,
\* clear_week, add_meal_manual, edit_meal, copy_meal, add_model, delete_model,
\* set_default_model, change_admin_password), requested without an admin_session
\* cookie, is answered with 401 and leaves meal_plans, meal_checks, ai_models and
\* admin as they are: with such requests only, the tables change by toggle_meal alone.
C28_NoSessionNoChange ==
    /\ [](\A cookie \in NoSession : AdminRefusal(cookie) = Some(401))
    /\ [][/\ meal_plans' = meal_plans
          /\ meal_plans_seq' = meal_plans_seq
          /\ ai_models' = ai_models
          /\ ai_models_seq' = ai_models_seq
          /\ admin' = admin
          /\ meal_checks' # meal_checks => toggles' # toggles]_vars

\* tables every one of the operations would have changed, after requests of both
\* profiles: a shared meal plan row with preparation checks, the seeded models and
\* the seeded password
C28_Witness ==
    /\ \E m \in meal_plans : m.id = 1 /\ m.plan_date \in Dates /\ m.profile_id = NULL
    /\ ChecksOf(1, 1) # {} /\ ChecksOf(2, 1) # {}
    /\ ToggleCount(1, 1) = 1 /\ ToggleCount(2, 1) = 2
    /\ ai_models = SeedModels
    /\ bcrypt_verify("admin123", admin.password_hash)

====
